---- MODULE Spec2Model ----
(***************************************************************************)
(* Habit tracking application: the SQLite store (tables habits and         *)
(* completions), the CLI handlers that write to it, and the analysis       *)
(* functions calculate_streak and broken_habits that read it.              *)
(*                                                                         *)
(* Time is counted in slots, SlotsPerDay slots to a calendar day.  A       *)
(* timestamp "YYYY-MM-DD HH:MM:SS" is the number of its slot; its calendar *)
(* date is the number of its day.  SQLite's CURRENT_TIMESTAMP is UTC (the  *)
(* variable now), Python's datetime.now() is local time (now + tz).        *)
(***************************************************************************)
EXTENDS Integers, Sequences, FiniteSets, TLC

\* ---------------------------------------------------------------- bounds
SlotsPerDay == 2
MaxNow == 1
MaxCompletions == 2
MaxAttempts == 2
MaxLen == 3

\* ---------------------------------------------------------------- inputs
Names == {"gym", "read"}
QueryNames == Names \cup {""}
Descriptions == {"text"}
GoalInputs == {"0", "3", "8", "x"}
\* the offsets of local time from UTC, in slots
TZ == {-1, 0, 1}

VARIABLES habits, completions, now, tz, op, streaks, broken, raised, conn

vars == <<habits, completions, now, tz, op, streaks, broken, raised, conn>>

\* SQL NULL / Python None in a text column
Null == "NULL"
\* no exception
NoError == "none"
\* a table without rows, a dict without keys
EmptyTable == [n \in {} |-> Null]
\* the return value of an operation that returns no mapping / no list
NoStreaks == EmptyTable
NoBroken == {}

Max(a, b) == IF a >= b THEN a ELSE b

\* ------------------------------------------------------- time conversions
\* datetime.strptime(row[0], "%Y-%m-%d %H:%M:%S").date(), datetime.now().date()
date(ts) == ts \div SlotsPerDay

\* (variant: a started day counts as a whole day)
days_rounded_up(delta) == (delta + SlotsPerDay - 1) \div SlotsPerDay

\* timedelta.days of a difference of two datetimes (floor of whole days)
days(delta) == delta \div SlotsPerDay

\* datetime.now(): local wall clock
local_now == now + tz

\* ------------------------------------------------------------- Database
\* (variant: INSERT OR REPLACE, the row of an existing name is replaced)
write_to_db_replace(h, name, description, periodicity, goal, is_broken, ts) ==
    [n \in DOMAIN h \cup {name} |->
        IF n = name
        THEN [description |-> description, periodicity |-> periodicity,
              created |-> ts, goal |-> goal, broken |-> is_broken]
        ELSE h[n]]

\* INSERT INTO habits (...); created defaults to CURRENT_TIMESTAMP.  name is the
\* PRIMARY KEY: an INSERT of an existing name fails and leaves the table as it is.
write_to_db(h, name, description, periodicity, goal, is_broken, ts) ==
    IF name \in DOMAIN h
    THEN h
    ELSE [n \in DOMAIN h \cup {name} |->
            IF n = name
            THEN [description |-> description, periodicity |-> periodicity,
                  created |-> ts, goal |-> goal, broken |-> is_broken]
            ELSE h[n]]

\* (variant: the record of the habit is replaced, not added)
add_completion_replace(c, name, ts) ==
    SelectSeq(c, LAMBDA r : r.name # name) \o <<[name |-> name, completed |-> ts]>>

\* INSERT INTO completions (name); id autoincrements (the position in the log),
\* completed defaults to CURRENT_TIMESTAMP.  Foreign keys are not enforced.
add_completion(c, name, ts) == Append(c, [name |-> name, completed |-> ts])

\* (variant: the UPDATE has no WHERE clause)
update_entry_in_db_unfiltered(h, name, periodicity, goal) ==
    [n \in DOMAIN h |-> [h[n] EXCEPT !.periodicity = periodicity, !.goal = goal]]

\* UPDATE habits SET periodicity = ?, goal = ? WHERE name = ?
update_entry_in_db(h, name, periodicity, goal) ==
    [n \in DOMAIN h |->
        IF n = name
        THEN [h[n] EXCEPT !.periodicity = periodicity, !.goal = goal]
        ELSE h[n]]

\* DELETE FROM habits WHERE name = ?
delete_from_db(h, name) == [n \in DOMAIN h \ {name} |-> h[n]]

\* SELECT 1 FROM habits WHERE name = ?
helper_check_habit_exists(name) == name \in DOMAIN habits

\* the completed column of the rows of completions with this name, in id order
completed_of(name) ==
    LET mine == SelectSeq(completions, LAMBDA c : c.name = name)
    IN  [i \in 1..Len(mine) |-> mine[i].completed]

\* SELECT MAX(completed) FROM completions WHERE name = ?; <<>> is None
helper_check_last_completed_habit_date(name) ==
    LET ts == completed_of(name)
    IN  IF ts = <<>>
        THEN <<>>
        ELSE <<CHOOSE m \in {ts[i] : i \in 1..Len(ts)} :
                    \A i \in 1..Len(ts) : ts[i] <= m>>

\* sorted(list), and ORDER BY ... ASC
insert_sorted(x, s) ==
    LET k == Cardinality({i \in 1..Len(s) : s[i] <= x})
    IN  SubSeq(s, 1, k) \o <<x>> \o SubSeq(s, k + 1, Len(s))

RECURSIVE sorted(_)
sorted(s) ==
    IF s = <<>> THEN <<>>
    ELSE insert_sorted(s[Len(s)], sorted(SubSeq(s, 1, Len(s) - 1)))

\* SELECT completed, periodicity FROM completions c LEFT JOIN habits h
\* ON c.name = h.name WHERE c.name = ? ORDER BY completed ASC
select_completions(name) ==
    LET ts == sorted(completed_of(name))
        periodicity == IF name \in DOMAIN habits THEN habits[name].periodicity ELSE Null
    IN  [i \in 1..Len(ts) |-> [completed |-> ts[i], periodicity |-> periodicity]]

\* ------------------------------------------------------------- Analysis
\* (variant: the names are read from the completions table)
streak_names_from_completions(arg) ==
    IF arg = <<>> \/ arg[1] = ""
    THEN {completions[i].name : i \in 1..Len(completions)}
    ELSE {arg[1]}

\* if not name: every name of the habits table, else the one name given.
\* arg is <<>> when calculate_streak is called without a name, <<name>> otherwise.
streak_names(arg) ==
    IF arg = <<>> \/ arg[1] = ""
    THEN DOMAIN habits
    ELSE {arg[1]}

\* (variant: the edge case of an untracked habit is not handled)
not_tracked_unhandled(rows) == FALSE

\* if not completions: the habit was not tracked yet
not_tracked(rows) == rows = <<>>

\* (variant: every habit is treated as daily)
period_delta_daily_only(periodicity) == 1

\* period_delta = 1 if periodicity == "daily" else 7
period_delta(periodicity) == IF periodicity = "daily" THEN 1 ELSE 7

\* longest_streak = 0; current_streak = 1
initial_longest == 0
initial_current == 1

\* (variant: a gap of at least the period continues the streak)
gap_continues_at_least(gap, pd) == gap >= pd

\* (sorted_dates[i] - sorted_dates[i - 1]).days == period_delta
gap_continues(gap, pd) == gap = pd

\* (variant: the streak lapses already at the period itself)
streak_lapsed_at_period(today, last, pd) == today - last >= pd

\* (today - sorted_dates[-1]).days > period_delta
streak_lapsed(today, last, pd) == today - last > pd

\* (variant: the longest streak is not raised to the current one)
final_longest_unraised(longest, current) == longest

\* longest_streak = max(longest_streak, current_streak), after the lapse check
final_longest(longest, current) == Max(longest, current)

\* for i in range(1, len(sorted_dates)): the walk over adjacent pairs, from
\* position i (1-based) on
RECURSIVE streak_loop(_, _, _, _, _)
streak_loop(sorted_dates, i, pd, current, longest) ==
    IF i > Len(sorted_dates)
    THEN [current |-> current, longest |-> longest]
    ELSE IF gap_continues(sorted_dates[i] - sorted_dates[i - 1], pd)
         THEN streak_loop(sorted_dates, i + 1, pd, current + 1, Max(longest, current + 1))
         ELSE streak_loop(sorted_dates, i + 1, pd, 1, Max(longest, current))

\* the streak computation over a non-empty list of dates
streak_of_dates(dates, periodicity, today) ==
    LET pd == period_delta(periodicity)
        sorted_dates == sorted(dates)
        walked == streak_loop(sorted_dates, 2, pd, initial_current, initial_longest)
        current_streak ==
            IF streak_lapsed(today, sorted_dates[Len(sorted_dates)], pd)
            THEN 0
            ELSE walked.current
        longest_streak == final_longest(walked.longest, current_streak)
    IN  [current_streak |-> current_streak, longest_streak |-> longest_streak]

\* the body of the loop over names: the entry of one habit, or the exception
\* list indexing raises on an empty list
habit_streak(name) ==
    LET rows == select_completions(name)
    IN  IF not_tracked(rows)
        THEN [error |-> NoError,
              value |-> [current_streak |-> 0, longest_streak |-> 0]]
        ELSE IF Len(rows) = 0
        THEN [error |-> "IndexError",
              value |-> [current_streak |-> 0, longest_streak |-> 0]]
        ELSE [error |-> NoError,
              value |-> streak_of_dates([i \in 1..Len(rows) |-> date(rows[i].completed)],
                                        rows[1].periodicity, date(local_now))]

\* (variant: broken already at the period itself)
streak_broken_at_period(periodicity, elapsed) ==
    \/ periodicity = "daily" /\ elapsed >= 1
    \/ periodicity = "weekly" /\ elapsed >= 7

\* the condition under which a habit with a last completion is listed
streak_broken(periodicity, elapsed) ==
    \/ periodicity = "daily" /\ elapsed > 1
    \/ periodicity = "weekly" /\ elapsed > 7

\* the body of the loop over the rows of habits
habit_broken(name) ==
    LET last_completed == helper_check_last_completed_habit_date(name)
    IN  IF last_completed # <<>>
        THEN streak_broken(habits[name].periodicity,
                           days(local_now - last_completed[1]))
        ELSE TRUE

\* the list broken_habits returns (each name once: name is the primary key)
broken_habits == {name \in DOMAIN habits : habit_broken(name)}

\* ------------------------------------------------------------------ CLI
\* int(goal): the integer a text denotes; other texts raise ValueError
IntOf == [g \in {"0", "3", "8"} |->
            CASE g = "0" -> 0 [] g = "3" -> 3 [] g = "8" -> 8]

\* one pass of the prompt loop: the periodicity selected and the goal typed
\* (no goal is asked for a daily habit)
Attempts ==
    {[periodicity |-> "daily", goal |-> ""]}
        \cup {[periodicity |-> "weekly", goal |-> g] : g \in GoalInputs}

\* (variant: the goal is only converted, its range is not checked)
attempt_accepted_unranged(a) ==
    \/ a.periodicity = "daily"
    \/ a.goal \in DOMAIN IntOf

\* whether this pass returns
attempt_accepted(a) ==
    \/ a.periodicity = "daily"
    \/ /\ a.goal \in DOMAIN IntOf
       /\ 1 <= IntOf[a.goal]
       /\ IntOf[a.goal] <= 7

\* what this pass returns
attempt_value(a) ==
    IF a.periodicity = "daily"
    THEN [periodicity |-> a.periodicity, goal |-> 7]
    ELSE [periodicity |-> a.periodicity, goal |-> IntOf[a.goal]]

\* while True: ...; <<>> while the user is still being prompted
helper_choose_periodicity_and_check_goal(attempts) ==
    LET ok == {i \in 1..Len(attempts) : attempt_accepted(attempts[i])}
    IN  IF ok = {}
        THEN <<>>
        ELSE <<attempt_value(attempts[CHOOSE i \in ok : \A j \in ok : i <= j])>>

AttemptSeqs == UNION {[1..k -> Attempts] : k \in 1..MaxAttempts}

\* every (periodicity, goal) the prompt loop returns over the answer sequences
Choices ==
    {helper_choose_periodicity_and_check_goal(a)[1] :
        a \in {s \in AttemptSeqs : helper_choose_periodicity_and_check_goal(s) # <<>>}}

\* ---------------------------------------------------------------- state
\* The position of the db_connection wrapper: pc is "idle" between two Database
\* operations, "try" when the connection is made and the wrapped function is
\* about to run, "finally" when it has run.  open counts the connections that
\* are open, opened those the operation made, runs the times the wrapped
\* function ran, exc is the exception it raised.
NoChoice == [periodicity |-> Null, goal |-> 0]

NoCall ==
    [pc |-> "idle", open |-> 0, opened |-> 0, runs |-> 0, exc |-> NoError,
     fn |-> "none", name |-> "", choice |-> NoChoice]

Init ==
    /\ habits = EmptyTable
    /\ completions = <<>>
    /\ now = 0
    /\ tz \in TZ
    /\ op = [kind |-> "none", arg |-> <<>>]
    /\ streaks = NoStreaks
    /\ broken = NoBroken
    /\ raised = NoError
    /\ conn = NoCall

\* an operation other than an analysis: the results of the last analysis are gone
NoResult ==
    /\ op' = [kind |-> "none", arg |-> <<>>]
    /\ streaks' = NoStreaks
    /\ broken' = NoBroken
    /\ raised' = NoError
    /\ UNCHANGED conn

\* CLI.create: the name prompt repeats until the name is new
Create(name, description, choice) ==
    /\ ~helper_check_habit_exists(name)
    /\ habits' = write_to_db(habits, name, description, choice.periodicity,
                             choice.goal, FALSE, now)
    /\ NoResult
    /\ UNCHANGED <<completions, now, tz>>

\* Habit(name, ...).create_habit(), called without the check of the name: the
\* INSERT of an existing name raises sqlite3.IntegrityError
CreateHabit(name, description, choice) ==
    /\ habits' = write_to_db(habits, name, description, choice.periodicity,
                             choice.goal, FALSE, now)
    /\ op' = [kind |-> "none", arg |-> <<>>]
    /\ raised' = IF name \in DOMAIN habits THEN "IntegrityError" ELSE NoError
    /\ streaks' = NoStreaks
    /\ broken' = NoBroken
    /\ UNCHANGED <<completions, now, tz, conn>>

\* CLI.track: the name prompt repeats until the habit exists
Track(name) ==
    /\ helper_check_habit_exists(name)
    /\ Len(completions) < MaxCompletions
    /\ completions' = add_completion(completions, name, now)
    /\ NoResult
    /\ UNCHANGED <<habits, now, tz>>

\* Habit(name, ...).update_habit(new_periodicity, new_goal): op keeps the name
\* of the habit the last call was about
UpdateHabit(name, choice) ==
    /\ habits' = update_entry_in_db(habits, name, choice.periodicity, choice.goal)
    /\ op' = [kind |-> "update_habit", arg |-> <<name>>]
    /\ streaks' = NoStreaks
    /\ broken' = NoBroken
    /\ raised' = NoError
    /\ UNCHANGED <<completions, now, tz, conn>>

\* CLI.edit: the name prompt repeats until the habit exists
Edit(name, choice) ==
    /\ helper_check_habit_exists(name)
    /\ UpdateHabit(name, choice)

\* CLI.delete
Delete(name) ==
    /\ helper_check_habit_exists(name)
    /\ habits' = delete_from_db(habits, name)
    /\ NoResult
    /\ UNCHANGED <<completions, now, tz>>

\* the clock advances by one slot
Tick ==
    /\ now < MaxNow
    /\ now' = now + 1
    /\ NoResult
    /\ UNCHANGED <<habits, completions, tz>>

\* Analysis.calculate_streak(name)
CalculateStreak(arg) ==
    LET names == streak_names(arg)
        failed == {n \in names : habit_streak(n).error # NoError}
    IN  /\ op' = [kind |-> "calculate_streak", arg |-> arg]
        /\ raised' = IF failed = {} THEN NoError ELSE "IndexError"
        /\ streaks' = IF failed = {}
                      THEN [n \in names |-> habit_streak(n).value]
                      ELSE NoStreaks
        /\ broken' = NoBroken
        /\ UNCHANGED <<habits, completions, now, tz, conn>>

\* Analysis.broken_habits()
BrokenHabits ==
    /\ op' = [kind |-> "broken_habits", arg |-> <<>>]
    /\ broken' = broken_habits
    /\ streaks' = NoStreaks
    /\ raised' = NoError
    /\ UNCHANGED <<habits, completions, now, tz, conn>>

Next ==
    \/ \E name \in Names, description \in Descriptions, choice \in Choices :
            Create(name, description, choice)
    \/ \E name \in Names, description \in Descriptions, choice \in Choices :
            CreateHabit(name, description, choice)
    \/ \E name \in Names : Track(name)
    \/ \E name \in Names, choice \in Choices : Edit(name, choice)
    \/ \E name \in Names, choice \in Choices : UpdateHabit(name, choice)
    \/ \E name \in Names : Delete(name)
    \/ Tick
    \/ \E arg \in {<<>>} \cup {<<n>> : n \in QueryNames} : CalculateStreak(arg)
    \/ BrokenHabits

Spec == Init /\ [][Next]_vars

\* ----------------------------------------------- the analysis on its own
\* The gaps, in slots, between one completion and the next (and between the
\* last completion and the query): the same slot, the next slot, one, two,
\* three, seven and eight days.
GapChoices ==
    {0, 1, SlotsPerDay, 2 * SlotsPerDay, 3 * SlotsPerDay, 7 * SlotsPerDay,
     8 * SlotsPerDay}

\* the completion timestamps of one habit, at most k of them, oldest first
RECURSIVE Histories(_)
Histories(k) ==
    IF k = 0 THEN {<<>>}
    ELSE LET shorter == Histories(k - 1)
         IN  shorter
                \cup (IF k = 1 THEN {<<0>>, <<1>>} ELSE {})
                \cup {Append(h, h[Len(h)] + g) :
                        h \in {p \in shorter : Len(p) = k - 1 /\ p # <<>>},
                        g \in GapChoices}

\* One habit with a history of completions, queried some time after the last one.
InitAnalysis ==
    /\ tz \in TZ
    /\ \E periodicity \in {"daily", "weekly"}, h \in Histories(MaxLen), g \in GapChoices :
        /\ habits = write_to_db(EmptyTable, "gym", "text", periodicity, 7, FALSE, 0)
        /\ completions = [i \in 1..Len(h) |-> [name |-> "gym", completed |-> h[i]]]
        /\ now = (IF h = <<>> THEN 0 ELSE h[Len(h)]) + g
    /\ op = [kind |-> "none", arg |-> <<>>]
    /\ streaks = NoStreaks
    /\ broken = NoBroken
    /\ raised = NoError
    /\ conn = NoCall

NextAnalysis ==
    \/ \E arg \in {<<>>, <<"gym">>} : CalculateStreak(arg)
    \/ BrokenHabits

SpecAnalysis == InitAnalysis /\ [][NextAnalysis]_vars

\* ------------------------------------- the Database operations step by step
\* the functions db_connection wraps: those that write ...
DbWriters == {"write_to_db", "add_completion", "update_entry_in_db", "delete_from_db"}
\* ... and those that only read
DbReaders ==
    {"retrieve_data", "helper_check_habit_exists",
     "helper_check_last_completed_habit_date"}

\* the calls of the Database operations, with their arguments
DbCalls ==
    {[fn |-> f, name |-> n, choice |-> c] :
        f \in {"write_to_db", "update_entry_in_db"}, n \in Names, c \in Choices}
    \cup {[fn |-> f, name |-> n, choice |-> NoChoice] :
            f \in {"add_completion", "delete_from_db"} \cup DbReaders, n \in Names}

\* (variant: the connection is closed only after a normal return)
closes_after_success_only(exc) == exc = NoError

\* finally: connection.close(), whether or not the wrapped function raised
closes_after(exc) == TRUE

\* connection = sqlite3.connect(self.db_name), on entry of the wrapper
DbConnect(call) ==
    /\ conn.pc = "idle"
    /\ call.fn = "add_completion" => Len(completions) < MaxCompletions
    /\ conn' = [pc |-> "try", open |-> conn.open + 1, opened |-> 1, runs |-> 0,
                exc |-> NoError, fn |-> call.fn, name |-> call.name,
                choice |-> call.choice]
    /\ raised' = NoError
    /\ UNCHANGED <<habits, completions, now, tz, op, streaks, broken>>

\* the exception of the statement of the wrapped function: the INSERT of an
\* existing name violates the primary key
statement_error(fn, name) ==
    IF fn = "write_to_db" /\ name \in DOMAIN habits THEN "IntegrityError" ELSE NoError

\* result = func(self, *args, **kwargs): the statement and the commit, or the
\* exception of the statement (the store may also fail on any statement)
DbRun(storage_fails) ==
    /\ conn.pc = "try"
    /\ LET exc == IF storage_fails THEN "OperationalError"
                  ELSE statement_error(conn.fn, conn.name)
           done == exc = NoError
       IN  /\ conn' = [conn EXCEPT !.pc = "finally", !.runs = conn.runs + 1, !.exc = exc]
           /\ habits' =
                IF ~done THEN habits
                ELSE IF conn.fn = "write_to_db"
                THEN write_to_db(habits, conn.name, "text", conn.choice.periodicity,
                                 conn.choice.goal, FALSE, now)
                ELSE IF conn.fn = "update_entry_in_db"
                THEN update_entry_in_db(habits, conn.name, conn.choice.periodicity,
                                        conn.choice.goal)
                ELSE IF conn.fn = "delete_from_db"
                THEN delete_from_db(habits, conn.name)
                ELSE habits
           /\ completions' =
                IF done /\ conn.fn = "add_completion"
                THEN add_completion(completions, conn.name, now)
                ELSE completions
    /\ UNCHANGED <<now, tz, op, streaks, broken, raised>>

\* the finally clause, then return result, or the exception goes on to the caller
DbReturn ==
    /\ conn.pc = "finally"
    /\ conn' = [conn EXCEPT !.pc = "idle",
                            !.open = IF closes_after(conn.exc)
                                     THEN conn.open - 1 ELSE conn.open]
    /\ raised' = conn.exc
    /\ UNCHANGED <<habits, completions, now, tz, op, streaks, broken>>

NextConnection ==
    \/ \E call \in DbCalls : DbConnect(call)
    \/ \E storage_fails \in BOOLEAN : DbRun(storage_fails)
    \/ DbReturn

SpecConnection == Init /\ [][NextConnection]_vars

\* ------------------------------------------------------------ properties
\* the period of a habit in days, as the specification gives it
PeriodDays(periodicity) == CASE periodicity = "daily" -> 1 [] periodicity = "weekly" -> 7

\* the calendar dates of the completions of a name, in the order they were logged
CompletionDates(n) ==
    LET ts == completed_of(n) IN [i \in 1..Len(ts) |-> date(ts[i])]

\* the latest completion timestamp of a name that has one
LastCompleted(n) ==
    LET ts == completed_of(n)
    IN  CHOOSE m \in {ts[i] : i \in 1..Len(ts)} : \A i \in 1..Len(ts) : ts[i] <= m

\* the calendar date of the query
Today == date(local_now)

\* the habits for which the last calculate_streak returned an entry
Answered == IF op.kind = "calculate_streak" THEN DOMAIN habits \cap DOMAIN streaks ELSE {}

Entry(current, longest) == [current_streak |-> current, longest_streak |-> longest]

\* a sequence with every value kept once, at its first position
RECURSIVE Dedup(_)
Dedup(s) ==
    IF s = <<>> THEN <<>>
    ELSE LET front == Dedup(SubSeq(s, 1, Len(s) - 1))
         IN  IF \E i \in 1..Len(front) : front[i] = s[Len(s)]
             THEN front
             ELSE Append(front, s[Len(s)])

\* C1: a habit with exactly one completion gets current = longest = 1 while the
\* query date is at most one period after the completion date, and current = 0
\* with longest = 1 once it is more than one period after it.
C1_SingleCompletion ==
    \A n \in Answered :
        Len(CompletionDates(n)) = 1 =>
            IF Today - CompletionDates(n)[1] <= PeriodDays(habits[n].periodicity)
            THEN streaks[n] = Entry(1, 1)
            ELSE streaks[n] = Entry(0, 1)

\* C2: the streaks of a history are those of the same history with every
\* calendar date kept once.
C2_DuplicatesIgnored ==
    \A n \in Answered :
        CompletionDates(n) # <<>> =>
            streaks[n] = streak_of_dates(Dedup(CompletionDates(n)),
                                         habits[n].periodicity, Today)

\* C3: every entry calculate_streak returns has 0 <= current_streak <= longest_streak.
C3_CurrentWithinLongest ==
    op.kind = "calculate_streak" =>
        \A n \in DOMAIN streaks :
            /\ 0 <= streaks[n].current_streak
            /\ streaks[n].current_streak <= streaks[n].longest_streak

\* a single completion, still within its period: the entry is (1, 1)
C3_Witness ==
    \E n \in Answered :
        /\ Len(CompletionDates(n)) = 1
        /\ streaks[n] = Entry(1, 1)

\* C4: n >= 1 completions on dates exactly one period apart, queried on the date
\* of the last one, give current_streak = longest_streak = n.
C4_ExactRun ==
    \A n \in Answered :
        LET ds == CompletionDates(n)
            p == PeriodDays(habits[n].periodicity)
        IN  ( /\ Len(ds) >= 1
              /\ \A i \in 1..(Len(ds) - 1) : ds[i + 1] - ds[i] = p
              /\ Today = ds[Len(ds)] )
            => streaks[n] = Entry(Len(ds), Len(ds))

\* a weekly habit completed on D, D+7 and D+14 and queried on D+14: (3, 3)
C4_Witness ==
    \E n \in Answered :
        LET ds == CompletionDates(n)
        IN  /\ habits[n].periodicity = "weekly"
            /\ Len(ds) = 3
            /\ ds[2] - ds[1] = 7
            /\ ds[3] - ds[2] = 7
            /\ Today = ds[3]
            /\ streaks[n] = Entry(3, 3)

\* the length of the run of exact-period gaps that ends at position j of ds
RunEndingAt(ds, p, j) ==
    CHOOSE k \in 1..j :
        /\ \A i \in (j - k + 1)..(j - 1) : ds[i + 1] - ds[i] = p
        /\ (k = j \/ ds[j - k + 1] - ds[j - k] # p)

\* C5: a streak continues only over gaps of exactly one period: with two or more
\* completions, longest_streak is the longest run of adjacent completion dates
\* exactly one period apart, an unlapsed current_streak is the run that ends at
\* the last completion, and it is 1 when the last gap differs from the period.
C5_ExactGap ==
    \A n \in Answered :
        LET ds == CompletionDates(n)
            p == PeriodDays(habits[n].periodicity)
            runs == {RunEndingAt(ds, p, j) : j \in 1..Len(ds)}
        IN  Len(ds) >= 2 =>
            /\ streaks[n].longest_streak \in runs
            /\ \A r \in runs : r <= streaks[n].longest_streak
            /\ Today - ds[Len(ds)] <= p =>
                    /\ streaks[n].current_streak = RunEndingAt(ds, p, Len(ds))
                    /\ ds[Len(ds)] - ds[Len(ds) - 1] # p =>
                            streaks[n].current_streak = 1

\* a daily habit completed on D and D+3 only and queried on D+3: (1, 1)
C5_Witness ==
    \E n \in Answered :
        LET ds == CompletionDates(n)
        IN  /\ habits[n].periodicity = "daily"
            /\ Len(ds) = 2
            /\ ds[2] - ds[1] = 3
            /\ Today = ds[2]
            /\ streaks[n] = Entry(1, 1)

\* C6: with at least one completion, current_streak is 0 exactly when the query
\* date is more than one period after the date of the latest completion.
C6_LapseExactlyBeyondPeriod ==
    \A n \in Answered :
        CompletionDates(n) # <<>> =>
            ( streaks[n].current_streak = 0
              <=> Today - date(LastCompleted(n)) > PeriodDays(habits[n].periodicity) )

\* the latest completion exactly one period before the query: still a streak
C6_Witness ==
    \E n \in Answered :
        /\ CompletionDates(n) # <<>>
        /\ habits[n].periodicity = "weekly"
        /\ Today - date(LastCompleted(n)) = 7
        /\ streaks[n].current_streak >= 1

\* the habits the last calculate_streak was asked about
Asked ==
    IF op.kind # "calculate_streak" THEN {}
    ELSE IF op.arg = <<>> THEN DOMAIN habits
    ELSE DOMAIN habits \cap {op.arg[1]}

\* C7: a habit without completions gets the entry (0, 0), and calculate_streak
\* raises nothing, whatever its periodicity and the time of the query.
C7_UntrackedIsZero ==
    \A n \in Asked :
        completed_of(n) = <<>> =>
            /\ raised = NoError
            /\ n \in DOMAIN streaks
            /\ streaks[n] = Entry(0, 0)

\* a weekly habit without completions, asked for by name after the clock moved
C7_Witness ==
    \E n \in Asked :
        /\ op.arg = <<n>>
        /\ habits[n].periodicity = "weekly"
        /\ completed_of(n) = <<>>
        /\ now > habits[n].created
        /\ streaks[n] = Entry(0, 0)

\* C8: broken_habits lists exactly the stored habits that have no completion,
\* or are daily with two or more whole days between the latest completion and
\* now, or are weekly with eight or more; only the latest completion counts.
C8_BrokenExactly ==
    op.kind = "broken_habits" =>
        /\ broken \subseteq DOMAIN habits
        /\ \A n \in DOMAIN habits :
            n \in broken <=>
                \/ completed_of(n) = <<>>
                \/ /\ habits[n].periodicity = "daily"
                   /\ local_now - LastCompleted(n) >= 2 * SlotsPerDay
                \/ /\ habits[n].periodicity = "weekly"
                   /\ local_now - LastCompleted(n) >= 8 * SlotsPerDay

\* a daily habit with earlier completions whose latest one is exactly two days old
C8_Witness ==
    /\ op.kind = "broken_habits"
    /\ \E n \in broken :
        /\ habits[n].periodicity = "daily"
        /\ Len(completed_of(n)) >= 2
        /\ local_now - LastCompleted(n) = 2 * SlotsPerDay

\* C9: calculate_streak and broken_habits raise an error for a periodicity that
\* is neither "daily" nor "weekly" (a missing one included).
C9_InvalidPeriodicityRejected ==
    /\ ( /\ op.kind = "calculate_streak"
         /\ \E n \in streak_names(op.arg) :
                /\ select_completions(n) # <<>>
                /\ select_completions(n)[1].periodicity \notin {"daily", "weekly"} )
       => raised # NoError
    /\ ( /\ op.kind = "broken_habits"
         /\ \E n \in DOMAIN habits : habits[n].periodicity \notin {"daily", "weekly"} )
       => raised # NoError

\* C10: calculate_streak(name) for a name without a row in habits raises nothing
\* and returns the entry (0, 0) for that name.
C10_UnknownNameIsZero ==
    ( /\ op.kind = "calculate_streak"
      /\ op.arg # <<>>
      /\ op.arg[1] # ""
      /\ op.arg[1] \notin DOMAIN habits )
    => /\ raised = NoError
       /\ op.arg[1] \in DOMAIN streaks
       /\ streaks[op.arg[1]] = Entry(0, 0)

\* C11: deleting a habit removes its row and its completion records: after a
\* delete of a name, no completion record with that name remains.
C11_DeleteRemovesCompletions ==
    [][\A n \in Names : Delete(n) => completed_of(n)' = <<>>]_vars

\* C12: the habits table holds one row per name (name is its key), no step
\* changes the name of a row (a step never removes one name and adds another),
\* no step replaces the description, the creation time or the broken flag of a
\* row that stays, and creating under an existing name leaves the table as it is.
C12_NameUniqueImmutable ==
    [][ /\ Cardinality(DOMAIN habits' \ DOMAIN habits)
            + Cardinality(DOMAIN habits \ DOMAIN habits') <= 1
        /\ \A n \in DOMAIN habits \cap DOMAIN habits' :
            /\ habits'[n].description = habits[n].description
            /\ habits'[n].created = habits[n].created
            /\ habits'[n].broken = habits[n].broken
        /\ \A n \in DOMAIN habits :
            (\E d \in Descriptions, c \in Choices : CreateHabit(n, d, c))
                => habits' = habits ]_vars

\* a creation under an existing name was attempted and refused
C12_Witness ==
    /\ raised = "IntegrityError"
    /\ habits # EmptyTable

\* C13: a Database operation holds exactly one connection while it runs, the
\* connection is closed when the operation ends, normally or with an exception,
\* so that none is open between two operations; the wrapped function runs once
\* (no retry) and its exception reaches the caller.
C13_ConnectionScopedToOperation ==
    /\ conn.pc = "idle" => conn.open = 0
    /\ conn.pc \in {"try", "finally"} => conn.open = 1 /\ conn.opened = 1
    /\ conn.pc = "try" => conn.runs = 0
    /\ conn.pc = "finally" => conn.runs = 1
    /\ (conn.pc = "idle" /\ conn.fn # "none") =>
            /\ conn.opened = 1
            /\ conn.runs = 1
            /\ raised = conn.exc

\* an operation whose statement raised has ended: the caller has the exception
\* and no connection is open
C13_Witness ==
    /\ conn.pc = "idle"
    /\ conn.fn = "write_to_db"
    /\ raised = "IntegrityError"
    /\ conn.open = 0

\* C14: calculate_streak() called without a name returns a dict whose keys are
\* exactly the names of the habits table: a habit without completions has an
\* entry, a name found only in the completions table has none.
C14_KeysAreHabitsTable ==
    (op.kind = "calculate_streak" /\ op.arg = <<>>) =>
        /\ raised = NoError
        /\ DOMAIN streaks = DOMAIN habits

\* the result of a call without a name, with a habit never tracked and a
\* completion whose habit has been deleted
C14_Witness ==
    /\ op.kind = "calculate_streak"
    /\ op.arg = <<>>
    /\ \E n \in DOMAIN habits : completed_of(n) = <<>> /\ n \in DOMAIN streaks
    /\ \E i \in 1..Len(completions) :
            /\ completions[i].name \notin DOMAIN habits
            /\ completions[i].name \notin DOMAIN streaks

\* C15: whatever the user answers to the prompts of create and edit, a stored
\* daily habit has goal 7 and a stored weekly habit has an integer goal from 1
\* to 7: a goal out of range or not an integer never reaches the store.
C15_StoredGoalInRange ==
    \A n \in DOMAIN habits :
        /\ habits[n].periodicity \in {"daily", "weekly"}
        /\ habits[n].periodicity = "daily" => habits[n].goal = 7
        /\ habits[n].periodicity = "weekly" =>
                habits[n].goal \in Int /\ 1 <= habits[n].goal /\ habits[n].goal <= 7

\* a daily and a weekly habit are stored, where the prompt loop had answers
\* out of range and not numeric to reject
C15_Witness ==
    /\ \E a \in Attempts : ~attempt_accepted(a) /\ a.goal \notin DOMAIN IntOf
    /\ \E a \in Attempts : ~attempt_accepted(a) /\ a.goal \in DOMAIN IntOf
    /\ \E n \in DOMAIN habits : habits[n].periodicity = "daily" /\ habits[n].goal = 7
    /\ \E n \in DOMAIN habits : habits[n].periodicity = "weekly" /\ habits[n].goal = 3

\* C16: an edit changes only the periodicity and the goal of the habit named:
\* its description, created timestamp and broken flag, the rows of the other
\* habits (none added, none removed) and all completion records stay as they
\* are, and the edit of a name without a row changes nothing in the store.
C16_EditChangesOnlyPeriodicityAndGoal ==
    [][\A name \in Names, choice \in Choices :
        (Edit(name, choice) \/ UpdateHabit(name, choice)) =>
            /\ completions' = completions
            /\ DOMAIN habits' = DOMAIN habits
            /\ \A n \in DOMAIN habits \ {name} : habits'[n] = habits[n]
            /\ name \in DOMAIN habits =>
                    /\ habits'[name].description = habits[name].description
                    /\ habits'[name].created = habits[name].created
                    /\ habits'[name].broken = habits[name].broken
                    /\ habits'[name].periodicity = choice.periodicity
                    /\ habits'[name].goal = choice.goal
            /\ name \notin DOMAIN habits => habits' = habits]_vars

\* an edit of one habit has just run while another habit, with other values,
\* and a completion record are stored
C16_Witness ==
    /\ op.kind = "update_habit"
    /\ op.arg[1] \in DOMAIN habits
    /\ completions # <<>>
    /\ \E n \in DOMAIN habits \ {op.arg[1]} :
            habits[n].periodicity # habits[op.arg[1]].periodicity

C18_BrokenHasNoCurrentStreak ==
    \A n \in DOMAIN habits :
        ( /\ habits[n].periodicity \in {"daily", "weekly"}
          /\ completed_of(n) # <<>> ) =>
            /\ (op.kind = "broken_habits" /\ n \in broken) =>
                    /\ habit_streak(n).error = NoError
                    /\ habit_streak(n).value.current_streak = 0
            /\ (op.kind = "calculate_streak" /\ n \in DOMAIN streaks /\ habit_broken(n)) =>
                    streaks[n].current_streak = 0

\* broken_habits has listed a habit that has completions and a past streak, and
\* its current streak is 0
C18_Witness ==
    /\ op.kind = "broken_habits"
    /\ \E n \in broken :
            /\ n \in DOMAIN habits
            /\ completed_of(n) # <<>>
            /\ habit_streak(n).value.current_streak = 0
            /\ habit_streak(n).value.longest_streak >= 1

====
